---- MODULE Spec2Model ----
(***************************************************************************)
(* Model of train.py: the command-line driver that trains RetinaFace for   *)
(* args.epoch epochs, logs the epoch losses to the experiment tracker,     *)
(* exports the weights and uploads them as an artifact.                    *)
(*                                                                         *)
(* The tensor framework and the tracker are external: a loss is an         *)
(* arbitrary value from LossValues, the model parameters are identified by *)
(* the number of optimizer steps applied to them, and every external call  *)
(* may raise.                                                              *)
(***************************************************************************)
EXTENDS Integers, Sequences, FiniteSets, TLC

\* ---- bounds of the model ------------------------------------------------
MaxEpoch == 2
MaxNegEpoch == 1
MaxBatches == 2
MaxLoss == 2
MaxBatchSize == 2

EpochArgs == (0 - MaxNegEpoch)..MaxEpoch
LoaderLens == 0..MaxBatches
LossValues == 1..MaxLoss
BatchSizes == 1..MaxBatchSize

VARIABLES
    args_epoch,       \* --epoch
    args_tuning,      \* --tuning
    args_batchsize,   \* --batchsize
    BATCH_SIZE,       \* model.config.BATCH_SIZE
    nBatches,         \* len(trainloader)
    onnx_file,        \* file SAVE_PATH+run+'.onnx'
    pth_file,         \* file SAVE_PATH+run+'.pth'
    config,           \* the config dict given to wandb.init
    loader_batch_size,\* batch_size of trainloader and validloader
    pc,               \* position of the script
    raised,           \* an exception has been raised
    epoch,            \* loop variable of the main loop
    best_ap,
    train_ap,
    m_loss,           \* main's loss_box, loss_pts, loss_cls
    loss_row,         \* last row logged with the three loss keys
    i,                \* batches of the current train() call already stepped
    cur,              \* batch yielded by the loader in the current iteration
    epoch_ap,
    t_loss,           \* train's loss_cls, loss_box, loss_pts
    grad,             \* batches whose gradients are in the .grad buffers
    step_grad,        \* gradients consumed by the last optimizer.step()
    batch_calls,      \* calls made for the current batch, in order
    processed,        \* batches stepped in the current train() call
    model_state,      \* number of optimizer steps applied to the parameters
    trainCalls, optSteps, schedSteps, logCalls,
    exportEpochs,     \* epochs in which train() exported
    artifact,         \* files added to the weights artifact
    uploaded          \* log_artifact done

vars == <<args_epoch, args_tuning, args_batchsize, BATCH_SIZE, nBatches,
          onnx_file, pth_file, config, loader_batch_size, pc, raised, epoch,
          best_ap, train_ap, m_loss, loss_row, i, cur, epoch_ap, t_loss,
          grad, step_grad, batch_calls, processed, model_state, trainCalls,
          optSteps, schedSteps, logCalls, exportEpochs, artifact, uploaded>>

argVars == <<args_epoch, args_tuning, args_batchsize, BATCH_SIZE, nBatches>>
fileVars == <<onnx_file, pth_file>>
setupVars == <<config, loader_batch_size>>
mainVars == <<epoch, best_ap, train_ap, m_loss, loss_row>>
trainVars == <<i, cur, epoch_ap, t_loss, processed>>
gradVars == <<grad, step_grad, batch_calls, model_state>>
countVars == <<trainCalls, optSteps, schedSteps, logCalls>>
outVars == <<exportEpochs, artifact, uploaded>>

\* ---- values -------------------------------------------------------------
\* A loss total is an exact fraction num/den.
Zero == [num |-> 0, den |-> 1]
Add(x, v) == [num |-> x.num + v * x.den, den |-> x.den]
Div(x, n) == [num |-> x.num, den |-> x.den * n]

NoFile == [origin |-> "absent", state |-> 0]
OldFile == [origin |-> "stale", state |-> 0]
Written(s) == [origin |-> "run", state |-> s]

NoLosses == [loss_cls |-> Zero, loss_box |-> Zero, loss_pts |-> Zero]
NoRow == [step |-> 0 - 1, loss_cls |-> Zero, loss_box |-> Zero, loss_landmark |-> Zero]

\* ---- pure steps of the code ---------------------------------------------
HasNextDropLast(k, n) == k + 1 < n
HasNext(k, n) == k < n

ZeroGradKeep(g) == g
ZeroGrad(g) == {}

OnErrorRetry(p) == p
OnError(p) == "failed"

EpochRangeInclusive(e, n) == e <= n
EpochRange(e, n) == e < n

NewBestApKeep(ap, best) == best
NewBestAp(ap, best) == IF ap > best THEN ap ELSE best

\* return loss_cls, loss_box, loss_pts, epoch_ap  unpacked by
\* loss_box, loss_pts, loss_cls, train_ap = train(...)
Unpack(t) == [loss_box |-> t.loss_cls, loss_pts |-> t.loss_box, loss_cls |-> t.loss_pts]

LossRow(e, m) == [step |-> e, loss_cls |-> m.loss_cls, loss_box |-> m.loss_box,
                  loss_landmark |-> m.loss_pts]

\* positions at which an external call is made
CallSites == {"start", "forward", "loss", "zero_grad", "backward", "opt_step",
              "export_onnx", "save_pth", "log_losses", "log_lr", "sched_step",
              "summary", "add_onnx", "add_pth", "log_artifact"}

Init ==
    /\ args_epoch \in EpochArgs
    /\ args_tuning \in BOOLEAN
    /\ args_batchsize \in BatchSizes
    /\ BATCH_SIZE \in BatchSizes
    /\ nBatches \in LoaderLens
    /\ onnx_file \in {NoFile, OldFile}
    /\ pth_file = onnx_file
    /\ config = [batchsize |-> 0, epoch |-> 0]
    /\ loader_batch_size = 0
    /\ pc = "start"
    /\ raised = FALSE
    /\ epoch = 0
    /\ best_ap = 0 - 1
    /\ train_ap = 0
    /\ m_loss = Unpack(NoLosses)
    /\ loss_row = NoRow
    /\ i = 0
    /\ cur = 0
    /\ epoch_ap = 0
    /\ t_loss = NoLosses
    /\ grad = {}
    /\ step_grad = {}
    /\ batch_calls = <<>>
    /\ processed = <<>>
    /\ model_state = 0
    /\ trainCalls = 0
    /\ optSteps = 0
    /\ schedSteps = 0
    /\ logCalls = 0
    /\ exportEpochs = {}
    /\ artifact = <<>>
    /\ uploaded = FALSE

\* ---- __main__ before the loop -------------------------------------------
MainSetup ==
    /\ pc = "start"
    /\ config' = [batchsize |-> args_batchsize, epoch |-> args_epoch]
    /\ loader_batch_size' = BATCH_SIZE
    /\ best_ap' = 0 - 1
    /\ epoch' = 0
    /\ pc' = "loop_head"
    /\ UNCHANGED <<argVars, fileVars, raised, train_ap, m_loss, loss_row,
                   trainVars, gradVars, countVars, outVars>>

\* for epoch in range(epochs): ... train(...)
EnterTrain ==
    /\ pc = "loop_head"
    /\ EpochRange(epoch, args_epoch)
    /\ trainCalls' = trainCalls + 1
    /\ t_loss' = NoLosses
    /\ epoch_ap' = 0
    /\ i' = 0
    /\ cur' = 0
    /\ processed' = <<>>
    /\ pc' = "train_for"
    /\ UNCHANGED <<argVars, fileVars, setupVars, raised, mainVars, gradVars,
                   optSteps, schedSteps, logCalls, outVars>>

ExitLoop ==
    /\ pc = "loop_head"
    /\ ~EpochRange(epoch, args_epoch)
    /\ pc' = IF args_tuning THEN "done" ELSE "add_onnx"
    /\ UNCHANGED <<argVars, fileVars, setupVars, raised, mainVars, trainVars,
                   gradVars, countVars, outVars>>

\* ---- train() ------------------------------------------------------------
NextBatch ==
    /\ pc = "train_for"
    /\ HasNext(i, nBatches)
    /\ cur' = i + 1
    /\ batch_calls' = <<>>
    /\ pc' = "forward"
    /\ UNCHANGED <<argVars, fileVars, setupVars, raised, mainVars, i, epoch_ap,
                   t_loss, processed, grad, step_grad, model_state, countVars,
                   outVars>>

LoopEnd ==
    /\ pc = "train_for"
    /\ ~HasNext(i, nBatches)
    /\ pc' = "mean"
    /\ UNCHANGED <<argVars, fileVars, setupVars, raised, mainVars, trainVars,
                   gradVars, countVars, outVars>>

Forward ==
    /\ pc = "forward"
    /\ batch_calls' = Append(batch_calls, "forward")
    /\ pc' = "loss"
    /\ UNCHANGED <<argVars, fileVars, setupVars, raised, mainVars, trainVars,
                   grad, step_grad, model_state, countVars, outVars>>

Loss ==
    /\ pc = "loss"
    /\ \E loss_l \in LossValues, loss_c \in LossValues, loss_landm \in LossValues :
          t_loss' = [loss_cls |-> Add(t_loss.loss_cls, loss_c),
                     loss_box |-> Add(t_loss.loss_box, loss_l),
                     loss_pts |-> Add(t_loss.loss_pts, loss_landm)]
    /\ batch_calls' = Append(batch_calls, "loss")
    /\ pc' = "zero_grad"
    /\ UNCHANGED <<argVars, fileVars, setupVars, raised, mainVars, i, cur,
                   epoch_ap, processed, grad, step_grad, model_state,
                   countVars, outVars>>

ZeroGradStep ==
    /\ pc = "zero_grad"
    /\ grad' = ZeroGrad(grad)
    /\ batch_calls' = Append(batch_calls, "zero_grad")
    /\ pc' = "backward"
    /\ UNCHANGED <<argVars, fileVars, setupVars, raised, mainVars, trainVars,
                   step_grad, model_state, countVars, outVars>>

Backward ==
    /\ pc = "backward"
    /\ grad' = grad \cup {<<epoch, cur>>}
    /\ batch_calls' = Append(batch_calls, "backward")
    /\ pc' = "opt_step"
    /\ UNCHANGED <<argVars, fileVars, setupVars, raised, mainVars, trainVars,
                   step_grad, model_state, countVars, outVars>>

OptimizerStep ==
    /\ pc = "opt_step"
    /\ step_grad' = grad
    /\ model_state' = model_state + 1
    /\ optSteps' = optSteps + 1
    /\ batch_calls' = Append(batch_calls, "step")
    /\ processed' = Append(processed, cur)
    /\ i' = i + 1
    /\ pc' = "train_for"
    /\ UNCHANGED <<argVars, fileVars, setupVars, raised, mainVars, cur,
                   epoch_ap, t_loss, grad, trainCalls, schedSteps, logCalls,
                   outVars>>

\* loss_cls = loss_cls/len(trainloader) ...
MeanOk ==
    /\ pc = "mean"
    /\ nBatches # 0
    /\ t_loss' = [loss_cls |-> Div(t_loss.loss_cls, nBatches),
                  loss_box |-> Div(t_loss.loss_box, nBatches),
                  loss_pts |-> Div(t_loss.loss_pts, nBatches)]
    /\ pc' = "export_check"
    /\ UNCHANGED <<argVars, fileVars, setupVars, raised, mainVars, i, cur,
                   epoch_ap, processed, gradVars, countVars, outVars>>

\* 0/0 raises ZeroDivisionError
MeanDivZero ==
    /\ pc = "mean"
    /\ nBatches = 0
    /\ raised' = TRUE
    /\ pc' = "failed"
    /\ UNCHANGED <<argVars, fileVars, setupVars, mainVars, trainVars, gradVars,
                   countVars, outVars>>

SkipExport ==
    /\ pc = "export_check"
    /\ ~(epoch_ap > best_ap)
    /\ pc' = "train_return"
    /\ UNCHANGED <<argVars, fileVars, setupVars, raised, mainVars, trainVars,
                   gradVars, countVars, outVars>>

BeginExport ==
    /\ pc = "export_check"
    /\ epoch_ap > best_ap
    /\ pc' = "export_onnx"
    /\ UNCHANGED <<argVars, fileVars, setupVars, raised, mainVars, trainVars,
                   gradVars, countVars, outVars>>

ExportOnnx ==
    /\ pc = "export_onnx"
    /\ onnx_file' = Written(model_state)
    /\ pc' = "save_pth"
    /\ UNCHANGED <<argVars, pth_file, setupVars, raised, mainVars, trainVars,
                   gradVars, countVars, outVars>>

SavePth ==
    /\ pc = "save_pth"
    /\ pth_file' = Written(model_state)
    /\ exportEpochs' = exportEpochs \cup {epoch}
    /\ pc' = "train_return"
    /\ UNCHANGED <<argVars, onnx_file, setupVars, raised, mainVars, trainVars,
                   gradVars, countVars, artifact, uploaded>>

\* ---- __main__, rest of the loop body ------------------------------------
TrainReturn ==
    /\ pc = "train_return"
    /\ m_loss' = Unpack(t_loss)
    /\ train_ap' = epoch_ap
    /\ pc' = "log_losses"
    /\ UNCHANGED <<argVars, fileVars, setupVars, raised, epoch, best_ap,
                   loss_row, trainVars, gradVars, countVars, outVars>>

LogLosses ==
    /\ pc = "log_losses"
    /\ loss_row' = LossRow(epoch, m_loss)
    /\ logCalls' = logCalls + 1
    /\ pc' = "log_lr"
    /\ UNCHANGED <<argVars, fileVars, setupVars, raised, epoch, best_ap,
                   train_ap, m_loss, trainVars, gradVars, trainCalls, optSteps,
                   schedSteps, outVars>>

LogLr ==
    /\ pc = "log_lr"
    /\ logCalls' = logCalls + 1
    /\ pc' = "sched_step"
    /\ UNCHANGED <<argVars, fileVars, setupVars, raised, mainVars, trainVars,
                   gradVars, trainCalls, optSteps, schedSteps, outVars>>

SchedulerStep ==
    /\ pc = "sched_step"
    /\ schedSteps' = schedSteps + 1
    /\ pc' = "summary"
    /\ UNCHANGED <<argVars, fileVars, setupVars, raised, mainVars, trainVars,
                   gradVars, trainCalls, optSteps, logCalls, outVars>>

Summary ==
    /\ pc = "summary"
    /\ best_ap' = NewBestAp(train_ap, best_ap)
    /\ epoch' = epoch + 1
    /\ pc' = "loop_head"
    /\ UNCHANGED <<argVars, fileVars, setupVars, raised, train_ap, m_loss,
                   loss_row, trainVars, gradVars, countVars, outVars>>

\* ---- artifact upload ----------------------------------------------------
AddOnnx ==
    /\ pc = "add_onnx"
    /\ onnx_file.origin # "absent"
    /\ artifact' = Append(artifact, onnx_file)
    /\ pc' = "add_pth"
    /\ UNCHANGED <<argVars, fileVars, setupVars, raised, mainVars, trainVars,
                   gradVars, countVars, exportEpochs, uploaded>>

AddPth ==
    /\ pc = "add_pth"
    /\ pth_file.origin # "absent"
    /\ artifact' = Append(artifact, pth_file)
    /\ pc' = "log_artifact"
    /\ UNCHANGED <<argVars, fileVars, setupVars, raised, mainVars, trainVars,
                   gradVars, countVars, exportEpochs, uploaded>>

LogArtifact ==
    /\ pc = "log_artifact"
    /\ uploaded' = TRUE
    /\ pc' = "done"
    /\ UNCHANGED <<argVars, fileVars, setupVars, raised, mainVars, trainVars,
                   gradVars, countVars, exportEpochs, artifact>>

\* ---- an external call raises; nothing catches it ------------------------
Raise ==
    /\ pc \in CallSites
    /\ raised' = TRUE
    /\ pc' = OnError(pc)
    /\ UNCHANGED <<argVars, fileVars, setupVars, mainVars, trainVars, gradVars,
                   countVars, outVars>>

Next ==
    \/ MainSetup
    \/ EnterTrain
    \/ ExitLoop
    \/ NextBatch
    \/ LoopEnd
    \/ Forward
    \/ Loss
    \/ ZeroGradStep
    \/ Backward
    \/ OptimizerStep
    \/ MeanOk
    \/ MeanDivZero
    \/ SkipExport
    \/ BeginExport
    \/ ExportOnnx
    \/ SavePth
    \/ TrainReturn
    \/ LogLosses
    \/ LogLr
    \/ SchedulerStep
    \/ Summary
    \/ AddOnnx
    \/ AddPth
    \/ LogArtifact
    \/ Raise

Spec == Init /\ [][Next]_vars

\* The interpreter runs the script to its end or to the first exception.
FairSpec == Spec /\ WF_vars(Next)

\* ---- properties ---------------------------------------------------------
Max0(n) == IF n > 0 THEN n ELSE 0

AfterTrainLoop == {"mean", "export_check", "export_onnx", "save_pth",
                   "train_return", "log_losses"}

\* C1: one call to train() is a single pass over the loader: the batches
\* stepped so far are 1, 2, ..., i in the order yielded, one optimizer step
\* each, and once the loop of train() is over (and when train() has
\* returned) exactly len(trainloader) batches have been stepped.
C1_SinglePass ==
    /\ Len(processed) = i
    /\ \A k \in 1..Len(processed) : processed[k] = k
    /\ optSteps = (trainCalls - 1) * nBatches + i \/ trainCalls = 0
    /\ pc \in AfterTrainLoop => Len(processed) = nBatches

C1_Witness ==
    /\ pc = "log_losses"
    /\ nBatches = MaxBatches
    /\ processed = [k \in 1..MaxBatches |-> k]
    /\ trainCalls = 2

\* C2: whenever a file has been added to the weights artifact, both weight
\* files were written by the export of this run.
C2_ExportPrecedesAddFile ==
    artifact # <<>> =>
        /\ exportEpochs # {}
        /\ \A k \in 1..Len(artifact) : artifact[k].origin = "run"

\* C3: an exception stops the run where it is raised: the position becomes
\* "failed" at once (the call is not retried) and from then on no optimizer
\* step, tracker log, scheduler step, best_ap update, export or upload
\* happens.
C3_FailStop ==
    [][ /\ raised' => pc' = "failed"
        /\ raised => UNCHANGED <<optSteps, logCalls, schedSteps, best_ap,
                                 trainCalls, fileVars, outVars, model_state>>
      ]_vars

C3_Witness ==
    /\ raised
    /\ pc = "failed"
    /\ optSteps = 1
    /\ nBatches = MaxBatches
    /\ args_epoch = MaxEpoch

\* C4 (as stated): a run that ends normally has called train() args.epoch
\* times, with args.epoch * len(trainloader) optimizer steps and args.epoch
\* scheduler steps.
C4_Original ==
    pc = "done" =>
        /\ trainCalls = args_epoch
        /\ optSteps = args_epoch * nBatches
        /\ schedSteps = args_epoch

\* C4 (amended): the run always terminates, and a run that ends normally
\* has called train() max(args.epoch, 0) times, with
\* max(args.epoch, 0) * len(trainloader) optimizer steps and
\* max(args.epoch, 0) scheduler steps.
C4_EpochBoundsRun ==
    /\ [](pc = "done" =>
            /\ trainCalls = Max0(args_epoch)
            /\ optSteps = Max0(args_epoch) * nBatches
            /\ schedSteps = Max0(args_epoch))
    /\ <>(pc \in {"done", "failed"})

C4_Witness ==
    /\ pc = "done"
    /\ args_epoch = MaxEpoch
    /\ nBatches = MaxBatches
    /\ optSteps = MaxEpoch * MaxBatches
    /\ schedSteps = MaxEpoch

\* C5: once the loaders are built, their batch size is the --batchsize
\* value that was recorded in the tracker config.
C5_LoaderBatchSize ==
    loader_batch_size # 0 =>
        /\ config.batchsize = args_batchsize
        /\ loader_batch_size = config.batchsize

\* C6: the row logged for the current epoch holds, under each key, the mean
\* of the matching loss: loss_cls the mean of loss_c, loss_box the mean of
\* loss_l, loss_landmark the mean of loss_landm.
C6_LoggedLosses ==
    pc \in {"log_lr", "sched_step", "summary"} =>
        /\ loss_row.step = epoch
        /\ loss_row.loss_cls = t_loss.loss_cls
        /\ loss_row.loss_box = t_loss.loss_box
        /\ loss_row.loss_landmark = t_loss.loss_pts

BatchOrder == <<"forward", "loss", "zero_grad", "backward", "step">>

\* C7: the calls made for a batch are a prefix of forward, loss, zero_grad,
\* backward, step; the gradient buffers never hold more than one batch, and
\* the gradients an optimizer step consumed are those of the batch it was
\* made for.
C7_GradOneBatch ==
    /\ Len(batch_calls) <= Len(BatchOrder)
    /\ \A k \in 1..Len(batch_calls) : batch_calls[k] = BatchOrder[k]
    /\ Cardinality(grad) <= 1
    /\ pc = "opt_step" => grad = {<<epoch, cur>>}
    /\ (pc = "train_for" /\ i > 0) => step_grad = {<<epoch, i>>}

C7_Witness ==
    /\ pc = "train_for"
    /\ epoch = 1
    /\ i = MaxBatches
    /\ step_grad = {<<1, MaxBatches>>}

\* C8: train() exports in the first epoch only: epoch_ap is always 0,
\* best_ap is -1 during the first epoch and 0 afterwards, and at the end of
\* a run of at least one epoch both files hold the parameters reached by the
\* last optimizer step of the first epoch.
C8_ExportFirstEpochOnly ==
    /\ epoch_ap = 0
    /\ exportEpochs \subseteq {0}
    /\ pc \in {"export_onnx", "save_pth"} => epoch = 0
    /\ epoch = 0 => best_ap = 0 - 1
    /\ epoch >= 1 => best_ap = 0
    /\ (pc = "done" /\ args_epoch >= 1) =>
            /\ onnx_file = Written(nBatches)
            /\ pth_file = Written(nBatches)

C8_Witness ==
    /\ pc = "done"
    /\ args_epoch = MaxEpoch
    /\ nBatches = MaxBatches
    /\ model_state = MaxEpoch * MaxBatches
    /\ pth_file = Written(MaxBatches)

====
